---- MODULE Spec2Model ----
(***************************************************************************)
(* Pingnoo ICMP ping engine: the transmit loop of ICMPPingTransmitter      *)
(* (src/src/components/ICMPPingEngine/ICMPPingTransmitter.cpp), the        *)
(* callers that reach it through the IPingEngine contract                  *)
(* (src/src/components/RouteAnalyser/IPingEngine.h), and the pending       *)
(* request table, receiver and timeout sweep of the engine.                *)
(*                                                                         *)
(* One transmitter thread runs doWork(); each statement that touches       *)
(* shared state (the target list, the two mutexes, the sequence counter,   *)
(* m_isRunning, the engine's request table, the socket) is one step, so    *)
(* every interleaving with the callers and the receiver is explored.       *)
(***************************************************************************)
EXTENDS Integers, Sequences, FiniteSets, TLC

(* ---- program constants ---- *)

\* uint16_t m_sequenceId: the counter has 2^16 values
SequenceModulus == 65536

\* the largest value of a uint16_t
SequenceMax == 65535

\* uint16_t ...::m_sequenceId = 1
SequenceStart == 1

\* constexpr auto DefaultTransmitInterval = 10000
DefaultTransmitInterval == 10000

(* ---- bounds of the model ---- *)

\* rounds of the transmit loop that are followed (sampleNumber is unbounded)
MaxRounds == 3

\* targets that addTarget registers
MaxTargets == 2

\* PingItems that are followed: a round is entered while the log of items
\* has room for one item per registered target
MaxItems == 3

\* calls of stop()
MaxStops == 2

\* calls of removeTarget() that return success
MaxRemovals == 1

\* calls of setInterval()
MaxSetIntervals == 2

\* calls of createPlot()
MaxPlots == 3

\* the targets the engine can create, in creation order
Targets == 1 .. MaxTargets

\* durations of a round that elapsedTimer.elapsed() returns, in ms: one
\* between the two intervals below, and one as long as the default interval
ElapsedTimes == {2, DefaultTransmitInterval}

\* arguments of setInterval(), in ms
Intervals == {1, 3}

\* addresses operator new can return for a JitterPlot
PlotAddresses == 1 .. MaxPlots + 1

\* arguments of createPlot(): the margins, as their width
Margins == {0, 1}

VARIABLES
    pc,                 \* position of the transmitter thread in doWork()
    m_isRunning,        \* ICMPPingTransmitter::m_isRunning
    sampleNumber,       \* local of doWork()
    idx,                \* position of the range-for over m_targets (1-based)
    currentSequenceId,  \* local of doWork()
    result,             \* local of doWork(): sendto returned the packet length
    m_targets,          \* ICMPPingTransmitter::m_targets, a list of targets
    m_targetsMutex,     \* holder of m_targetsMutex: "free", "tx" or "adder"
    m_sequenceId,       \* static ICMPPingTransmitter::m_sequenceId
    m_sequenceMutex,    \* holder of the static m_sequenceMutex: "free" or "tx"
    epochSets,          \* number of m_engine->setEpoch() calls
    items,              \* every PingItem created, in creation order
    pendingTable,       \* engine's pending table: <<id, seq>> -> index in items
    wire,               \* echo requests sent and not yet answered
    stopCalls,          \* number of stop() calls made
    removed,            \* targets for which removeTarget returned success
    targetsAtStart,     \* history: targets registered when start() was called
    addPc,              \* position of an addTarget caller
    m_interval,         \* ICMPPingTransmitter::m_interval
    elapsedTime,        \* local of doWork(): elapsedTimer.elapsed() of the round
    sleepArg,           \* value of m_interval - elapsedTime given to msleep()
    iteration,          \* history: passes of the while loop begun in this run
    setIntervalCalls,   \* history: number of setInterval() calls made
    lastSetInterval,    \* history: argument of the latest setInterval() call
    setIntervalResult,  \* history: value the latest setInterval() returned
    destructed,         \* ~ICMPPingTransmitter() has run
    targetDeletes,      \* target -> number of times it was deleted
    m_plots,            \* JitterPlotFactory::m_plots, a list of plot addresses
    plotHeap,           \* live JitterPlot objects: address -> margins
    returnedPlots,      \* history: the values createPlot() returned, in order
    plotDeletes,        \* plot address -> number of times it was deleted
    factoryDestructed   \* ~JitterPlotFactory() has run

txVars == <<pc, m_isRunning, sampleNumber, idx, currentSequenceId, result,
           epochSets>>
regVars == <<m_targets, m_targetsMutex, addPc>>
seqVars == <<m_sequenceId, m_sequenceMutex>>
engVars == <<items, pendingTable, wire>>
envVars == <<stopCalls, removed, targetsAtStart>>
timeVars == <<m_interval, elapsedTime, sleepArg, iteration>>
ivlVars == <<setIntervalCalls, lastSetInterval, setIntervalResult>>
dtorVars == <<destructed, targetDeletes>>
plotVars == <<m_plots, plotHeap, returnedPlots, plotDeletes, factoryDestructed>>
vars == <<txVars, regVars, seqVars, engVars, envVars, timeVars, ivlVars,
          dtorVars, plotVars>>

(* ---- helpers ---- *)

\* target->id(): the identifier a target puts in its packets
TargetId(t) == t

\* key of the pending table
KeyOf(it) == <<it.id, it.seq>>

\* the item the loop body is working on: the last one created
CurrentItem == Len(items)

\* a counter that goes back to its initial value after the largest one
NextSequenceIdToStart(s) == IF s = SequenceMax THEN SequenceStart ELSE s + 1

\* uint16_t post-increment: the value after m_sequenceId++
NextSequenceId(s) == (s + 1) % SequenceModulus

\* the table with key k bound to item i (an existing binding is replaced)
TablePut(tbl, k, i) ==
    [x \in (DOMAIN tbl) \cup {k} |-> IF x = k THEN i ELSE tbl[x]]

\* the table without key k
TableErase(tbl, k) == [x \in (DOMAIN tbl) \ {k} |-> tbl[x]]

\* state of the transmitter as the engine contract sees it
TransmitterState ==
    IF m_isRunning THEN "Running"
    ELSE IF stopCalls > 0 THEN "Stopped" ELSE "Idle"

(* ---- initial state: a constructed transmitter, engine not started ---- *)

\* the transmitter after its constructor, the process-wide counter holding s
InitWith(s) ==
    /\ pc = "idle"
    /\ m_isRunning = FALSE
    /\ sampleNumber = 0
    /\ idx = 0
    /\ currentSequenceId = 0
    /\ result = TRUE
    /\ m_targets = <<>>
    /\ m_targetsMutex = "free"
    /\ m_sequenceId = s
    /\ m_sequenceMutex = "free"
    /\ epochSets = 0
    /\ items = <<>>
    /\ pendingTable = <<>>
    /\ wire = {}
    /\ stopCalls = 0
    /\ removed = {}
    /\ targetsAtStart = 0
    /\ addPc = "none"
    /\ m_interval = DefaultTransmitInterval
    /\ elapsedTime = 0
    /\ sleepArg = 0
    /\ iteration = 0
    /\ setIntervalCalls = 0
    /\ lastSetInterval = 0
    /\ setIntervalResult = TRUE
    /\ destructed = FALSE
    /\ targetDeletes = [t \in Targets |-> 0]
    /\ m_plots = <<>>
    /\ plotHeap = <<>>
    /\ returnedPlots = <<>>
    /\ plotDeletes = [a \in PlotAddresses |-> 0]
    /\ factoryDestructed = FALSE

\* the first transmitter of the process: the counter holds its initial value
Init == InitWith(SequenceStart)

\* a transmitter constructed after earlier engines of the process have used
\* the counter up to its last value but one
InitWrap == InitWith(SequenceMax - 1)

(* ---- engine contract: start and stop ---- *)

\* start(): the worker thread is started and will run doWork()
Start ==
    /\ pc = "idle"
    /\ pc' = "entry"
    /\ targetsAtStart' = Len(m_targets)
    /\ UNCHANGED <<m_isRunning, sampleNumber, idx, currentSequenceId, result, epochSets,
                   regVars, seqVars, engVars, stopCalls, removed,
                   timeVars, ivlVars,
                   dtorVars, plotVars>>

\* stop(): clears m_isRunning; callable from any thread once started
Stop ==
    /\ pc # "idle"
    /\ stopCalls < MaxStops
    /\ m_isRunning' = FALSE
    /\ stopCalls' = stopCalls + 1
    /\ UNCHANGED <<pc, sampleNumber, idx, currentSequenceId, result, epochSets,
                   regVars, seqVars, engVars, removed, targetsAtStart,
                   timeVars, ivlVars,
                   dtorVars, plotVars>>

(* ---- ICMPPingTransmitter::doWork ---- *)

\* lines 56-59: the locals, then m_isRunning = true
DoWorkEntry ==
    /\ pc = "entry"
    /\ sampleNumber' = 0
    /\ m_isRunning' = TRUE
    /\ iteration' = 0
    /\ pc' = "epoch"
    /\ UNCHANGED <<idx, currentSequenceId, result, epochSets,
                   regVars, seqVars, engVars, envVars,
                   m_interval, elapsedTime, sleepArg, ivlVars,
                   dtorVars, plotVars>>

\* a loop that leaves the epoch of the engine as it was
SetEpochSkipped ==
    /\ pc = "epoch"
    /\ pc' = "while"
    /\ UNCHANGED <<m_isRunning, sampleNumber, idx, currentSequenceId, result, epochSets,
                   regVars, seqVars, engVars, envVars,
                   timeVars, ivlVars,
                   dtorVars, plotVars>>

\* line 61: m_engine->setEpoch(now)
SetEpoch ==
    /\ pc = "epoch"
    /\ epochSets' = epochSets + 1
    /\ pc' = "while"
    /\ UNCHANGED <<m_isRunning, sampleNumber, idx, currentSequenceId, result,
                   regVars, seqVars, engVars, envVars,
                   timeVars, ivlVars,
                   dtorVars, plotVars>>

\* line 63: while (m_isRunning)
WhileCheck ==
    /\ pc = "while"
    /\ m_isRunning => sampleNumber < MaxRounds
    /\ pc' = IF m_isRunning THEN "check_empty" ELSE "done"
    /\ iteration' = IF m_isRunning THEN iteration + 1 ELSE iteration
    /\ UNCHANGED <<m_isRunning, sampleNumber, idx, currentSequenceId, result, epochSets,
                   regVars, seqVars, engVars, envVars,
                   m_interval, elapsedTime, sleepArg, ivlVars,
                   dtorVars, plotVars>>

\* lines 64-68: m_targets.isEmpty() and m_targets.last() are read for the
\* trace message, with no lock held; then the timer is restarted
CheckEmpty ==
    /\ pc = "check_empty"
    /\ pc' = "lock"
    /\ UNCHANGED <<m_isRunning, sampleNumber, idx, currentSequenceId, result, epochSets,
                   regVars, seqVars, engVars, envVars,
                   timeVars, ivlVars,
                   dtorVars, plotVars>>

\* line 70: m_targetsMutex.lock(), then the range-for starts
LockTargets ==
    /\ pc = "lock"
    /\ m_targetsMutex = "free"
    /\ Len(items) + Len(m_targets) <= MaxItems
    /\ m_targetsMutex' = "tx"
    /\ idx' = 1
    /\ pc' = "for"
    /\ UNCHANGED <<m_isRunning, sampleNumber, currentSequenceId, result, epochSets,
                   m_targets, addPc, seqVars, engVars, envVars,
                   timeVars, ivlVars,
                   dtorVars, plotVars>>

\* a range-for that stops before the last target of the list
ForNextSkippingLast ==
    /\ pc = "for"
    /\ pc' = IF idx < Len(m_targets) THEN "seq_lock" ELSE "unlock"
    /\ UNCHANGED <<m_isRunning, sampleNumber, idx, currentSequenceId, result, epochSets,
                   regVars, seqVars, engVars, envVars,
                   timeVars, ivlVars,
                   dtorVars, plotVars>>

\* line 72: the next target of the list, or the end of the loop
ForNext ==
    /\ pc = "for"
    /\ pc' = IF idx <= Len(m_targets) THEN "seq_lock" ELSE "unlock"
    /\ UNCHANGED <<m_isRunning, sampleNumber, idx, currentSequenceId, result, epochSets,
                   regVars, seqVars, engVars, envVars,
                   timeVars, ivlVars,
                   dtorVars, plotVars>>

\* line 77: m_sequenceMutex.lock()
LockSequence ==
    /\ pc = "seq_lock"
    /\ m_sequenceMutex = "free"
    /\ m_sequenceMutex' = "tx"
    /\ pc' = "seq_inc"
    /\ UNCHANGED <<m_isRunning, sampleNumber, idx, currentSequenceId, result, epochSets,
                   regVars, m_sequenceId, engVars, envVars,
                   timeVars, ivlVars,
                   dtorVars, plotVars>>

\* line 78: uint16_t currentSequenceId = m_sequenceId++
AllocateSequence ==
    /\ pc = "seq_inc"
    /\ currentSequenceId' = m_sequenceId
    /\ m_sequenceId' = NextSequenceId(m_sequenceId)
    /\ pc' = "seq_unlock"
    /\ UNCHANGED <<m_isRunning, sampleNumber, idx, result, epochSets,
                   regVars, m_sequenceMutex, engVars, envVars,
                   timeVars, ivlVars,
                   dtorVars, plotVars>>

\* line 79: m_sequenceMutex.unlock()
UnlockSequence ==
    /\ pc = "seq_unlock"
    /\ m_sequenceMutex' = "free"
    /\ pc' = "add_request"
    /\ UNCHANGED <<m_isRunning, sampleNumber, idx, currentSequenceId, result, epochSets,
                   regVars, m_sequenceId, engVars, envVars,
                   timeVars, ivlVars,
                   dtorVars, plotVars>>

\* a PingItem whose sample number is never set
NewItemWithoutSample(t, seq, sample) ==
    [target |-> t, id |-> TargetId(t), seq |-> seq, sample |-> 0,
     state |-> "Pending", started |-> FALSE, results |-> 0, matched |-> 0]

\* the PingItem of lines 75 and 81-84
NewItem(t, seq, sample) ==
    [target |-> t, id |-> TargetId(t), seq |-> seq, sample |-> sample,
     state |-> "Pending", started |-> FALSE, results |-> 0, matched |-> 0]

\* an item that is filled in but not handed to the engine before the send
AddRequestUnregistered ==
    /\ pc = "add_request"
    /\ items' = Append(items, NewItem(m_targets[idx], currentSequenceId, sampleNumber))
    /\ pc' = "sendto"
    /\ UNCHANGED <<m_isRunning, sampleNumber, idx, currentSequenceId, result, epochSets,
                   regVars, seqVars, pendingTable, wire, envVars,
                   timeVars, ivlVars,
                   dtorVars, plotVars>>

\* lines 75, 81-86: the item is filled in and handed to the engine
AddRequest ==
    /\ pc = "add_request"
    /\ LET it == NewItem(m_targets[idx], currentSequenceId, sampleNumber)
       IN /\ items' = Append(items, it)
          /\ pendingTable' = TablePut(pendingTable, KeyOf(it), Len(items) + 1)
    /\ pc' = "sendto"
    /\ UNCHANGED <<m_isRunning, sampleNumber, idx, currentSequenceId, result, epochSets,
                   regVars, seqVars, wire, envVars,
                   timeVars, ivlVars,
                   dtorVars, plotVars>>

\* the echo request of item i as it travels: identifier and sequence are the
\* packet's fields; origin names the item whose request it is
PacketOf(i) == [id |-> items[i].id, seq |-> items[i].seq, origin |-> i]

\* a send that leaves the range-for when sendto fails
SendtoLeavingOnFailure ==
    /\ pc = "sendto"
    /\ \E ok \in BOOLEAN :
          /\ result' = ok
          /\ wire' = IF ok THEN wire \cup {PacketOf(CurrentItem)} ELSE wire
          /\ pc' = IF ok THEN "start_timer" ELSE "unlock"
    /\ UNCHANGED <<m_isRunning, sampleNumber, idx, currentSequenceId, epochSets,
                   regVars, seqVars, items, pendingTable, envVars,
                   timeVars, ivlVars,
                   dtorVars, plotVars>>

\* lines 88-105: the packet is built and given to the socket; sendto returns
\* the packet length (the request is on the wire) or something else
Sendto ==
    /\ pc = "sendto"
    /\ \E ok \in BOOLEAN :
          /\ result' = ok
          /\ wire' = IF ok THEN wire \cup {PacketOf(CurrentItem)} ELSE wire
    /\ pc' = "start_timer"
    /\ UNCHANGED <<m_isRunning, sampleNumber, idx, currentSequenceId, epochSets,
                   regVars, seqVars, items, pendingTable, envVars,
                   timeVars, ivlVars,
                   dtorVars, plotVars>>

\* lines 97-108: pingItem->startTimer(); a failed send is only logged and the
\* loop goes on to the next target
StartTimer ==
    /\ pc = "start_timer"
    /\ items' = [items EXCEPT ![CurrentItem].started = TRUE]
    /\ idx' = idx + 1
    /\ result' = TRUE
    /\ pc' = "for"
    /\ UNCHANGED <<m_isRunning, sampleNumber, currentSequenceId, epochSets,
                   regVars, seqVars, pendingTable, wire, envVars,
                   timeVars, ivlVars,
                   dtorVars, plotVars>>

\* a round that ends with the registry lock still held
UnlockTargetsKeepingLock ==
    /\ pc = "unlock"
    /\ pc' = "elapsed"
    /\ UNCHANGED <<m_isRunning, sampleNumber, idx, currentSequenceId, result, epochSets,
                   regVars, seqVars, engVars, envVars,
                   timeVars, ivlVars,
                   dtorVars, plotVars>>

\* line 110: m_targetsMutex.unlock()
UnlockTargets ==
    /\ pc = "unlock"
    /\ m_targetsMutex' = "free"
    /\ pc' = "elapsed"
    /\ UNCHANGED <<m_isRunning, sampleNumber, idx, currentSequenceId, result, epochSets,
                   m_targets, addPc, seqVars, engVars, envVars,
                   timeVars, ivlVars,
                   dtorVars, plotVars>>

\* line 112: auto elapsedTime = elapsedTimer.elapsed()
Elapsed ==
    /\ pc = "elapsed"
    /\ \E e \in ElapsedTimes : elapsedTime' = e
    /\ pc' = "test_interval"
    /\ UNCHANGED <<m_isRunning, sampleNumber, idx, currentSequenceId, result, epochSets,
                   regVars, seqVars, engVars, envVars,
                   m_interval, sleepArg, iteration, ivlVars,
                   dtorVars, plotVars>>

\* line 114: if (elapsedTime < m_interval); m_interval is read with no lock
TestInterval ==
    /\ pc = "test_interval"
    /\ pc' = IF elapsedTime < m_interval THEN "msleep" ELSE "inc_sample"
    /\ elapsedTime' = IF elapsedTime < m_interval THEN elapsedTime ELSE 0
    /\ UNCHANGED <<m_isRunning, sampleNumber, idx, currentSequenceId, result, epochSets,
                   regVars, seqVars, engVars, envVars,
                   m_interval, sleepArg, iteration, ivlVars,
                   dtorVars, plotVars>>

\* line 115: m_interval is read again and QThread::msleep() is called with
\* m_interval - elapsedTime; the thread sleeps
Msleep ==
    /\ pc = "msleep"
    /\ sleepArg' = m_interval - elapsedTime
    /\ pc' = "sleeping"
    /\ UNCHANGED <<m_isRunning, sampleNumber, idx, currentSequenceId, result, epochSets,
                   regVars, seqVars, engVars, envVars,
                   m_interval, elapsedTime, iteration, ivlVars,
                   dtorVars, plotVars>>

\* line 115: QThread::msleep() returns; the locals of the round are dead
WakeUp ==
    /\ pc = "sleeping"
    /\ pc' = "inc_sample"
    /\ elapsedTime' = 0
    /\ sleepArg' = 0
    /\ UNCHANGED <<m_isRunning, sampleNumber, idx, currentSequenceId, result, epochSets,
                   regVars, seqVars, engVars, envVars,
                   m_interval, iteration, ivlVars,
                   dtorVars, plotVars>>

\* a loop that counts only the rounds in which the registry had a target
IncSampleWhenProbed ==
    /\ pc = "inc_sample"
    /\ sampleNumber' = IF m_targets = <<>> THEN sampleNumber ELSE sampleNumber + 1
    /\ pc' = "while"
    /\ UNCHANGED <<m_isRunning, idx, currentSequenceId, result, epochSets,
                   regVars, seqVars, engVars, envVars,
                   timeVars, ivlVars,
                   dtorVars, plotVars>>

\* line 118: sampleNumber++
IncSample ==
    /\ pc = "inc_sample"
    /\ sampleNumber' = sampleNumber + 1
    /\ pc' = "while"
    /\ UNCHANGED <<m_isRunning, idx, currentSequenceId, result, epochSets,
                   regVars, seqVars, engVars, envVars,
                   timeVars, ivlVars,
                   dtorVars, plotVars>>

(* ---- ICMPPingTransmitter::addTarget, called by the engine's addTarget ---- *)

\* the engine creates the next target and calls addTarget
AddTargetCall ==
    /\ addPc = "none"
    /\ Len(m_targets) < MaxTargets
    /\ addPc' = "wait"
    /\ UNCHANGED <<txVars, m_targets, m_targetsMutex, seqVars, engVars,
                   envVars,
                   timeVars, ivlVars,
                   dtorVars, plotVars>>

\* line 129: QMutexLocker locker(&m_targetsMutex)
AddTargetLock ==
    /\ addPc = "wait"
    /\ m_targetsMutex = "free"
    /\ m_targetsMutex' = "adder"
    /\ addPc' = "locked"
    /\ UNCHANGED <<txVars, m_targets, seqVars, engVars, envVars,
                   timeVars, ivlVars,
                   dtorVars, plotVars>>

\* lines 131-132: m_targets.append(target); the locker unlocks on return
AddTargetAppend ==
    /\ addPc = "locked"
    /\ m_targets' = Append(m_targets, Len(m_targets) + 1)
    /\ m_targetsMutex' = "free"
    /\ addPc' = "none"
    /\ UNCHANGED <<txVars, seqVars, engVars, envVars,
                   timeVars, ivlVars,
                   dtorVars, plotVars>>

(* ---- ICMPPingTransmitter::setInterval and interval ---- *)

\* a setInterval that refuses intervals shorter than 2 ms
SetIntervalRefusingShort(interval) ==
    /\ setIntervalCalls < MaxSetIntervals
    /\ m_interval' = IF interval < 2 THEN m_interval ELSE interval
    /\ setIntervalResult' = (interval >= 2)
    /\ setIntervalCalls' = setIntervalCalls + 1
    /\ lastSetInterval' = interval
    /\ UNCHANGED <<txVars, regVars, seqVars, engVars, envVars,
                   elapsedTime, sleepArg, iteration,
                   dtorVars, plotVars>>

\* lines 122-126: m_interval = interval; return true.  No lock is taken.
SetInterval(interval) ==
    /\ setIntervalCalls < MaxSetIntervals
    /\ m_interval' = interval
    /\ setIntervalResult' = TRUE
    /\ setIntervalCalls' = setIntervalCalls + 1
    /\ lastSetInterval' = interval
    /\ UNCHANGED <<txVars, regVars, seqVars, engVars, envVars,
                   elapsedTime, sleepArg, iteration,
                   dtorVars, plotVars>>

\* a caller of setInterval with one of the arguments
SetIntervalCall == \E interval \in Intervals : SetInterval(interval)

\* lines 134-136: interval() returns m_interval
Interval == m_interval

(* ---- ICMPPingTransmitter::~ICMPPingTransmitter ---- *)

\* the number of places of the list that hold x
Occurrences(list, x) == Cardinality({k \in 1 .. Len(list) : list[k] = x})

\* lines 51-53: qDeleteAll(m_targets) deletes the target of every place of
\* the list.  No lock is taken and m_isRunning is not looked at.
Destructor ==
    /\ ~destructed
    /\ targetDeletes' =
          [t \in Targets |-> targetDeletes[t] + Occurrences(m_targets, t)]
    /\ destructed' = TRUE
    /\ UNCHANGED <<txVars, regVars, seqVars, engVars, envVars, timeVars,
                   ivlVars, plotVars>>

\* teardown of the engine: an engine that was started is stopped first;
\* stop() does not block, so the transmitter is destroyed without waiting
\* for the loop to leave doWork()
Teardown ==
    /\ pc = "idle" \/ stopCalls > 0
    /\ Destructor

(* ---- engine: removeTarget, receiver and timeout sweep ---- *)

\* removeTarget(handle) -> success.  The transmitter has no operation that
\* takes a target out of m_targets, so its list is left as it is.
RemoveTarget ==
    /\ Cardinality(removed) < MaxRemovals
    /\ \E k \in 1 .. Len(m_targets) :
          /\ m_targets[k] \notin removed
          /\ removed' = removed \cup {m_targets[k]}
    /\ UNCHANGED <<txVars, regVars, seqVars, engVars, stopCalls, targetsAtStart,
                   timeVars, ivlVars,
                   dtorVars, plotVars>>

\* the item completed by the reply to the request of item origin: one more
\* result is emitted for it
Completed(it, origin) ==
    [it EXCEPT !.state = "Completed", !.results = @ + 1, !.matched = origin]

\* the item timed out: one more result is emitted for it
TimedOut(it) == [it EXCEPT !.state = "TimedOut", !.results = @ + 1]

\* the receiver gets the echo reply to request p: the pending table is looked
\* up by (identifier, sequence); a hit is completed, reported and erased, a
\* miss is dropped
ReceiveReply ==
    /\ \E p \in wire :
          /\ wire' = wire \ {p}
          /\ IF <<p.id, p.seq>> \in DOMAIN pendingTable
             THEN LET i == pendingTable[<<p.id, p.seq>>]
                  IN /\ items' = [items EXCEPT ![i] = Completed(@, p.origin)]
                     /\ pendingTable' = TableErase(pendingTable, <<p.id, p.seq>>)
             ELSE UNCHANGED <<items, pendingTable>>
    /\ UNCHANGED <<txVars, regVars, seqVars, envVars,
                   timeVars, ivlVars,
                   dtorVars, plotVars>>

\* the sweep finds an entry older than the timeout (its timer was started):
\* it is reported as timed out and erased
TimeoutSweep ==
    /\ \E k \in DOMAIN pendingTable :
          LET i == pendingTable[k]
          IN /\ items[i].started
             /\ items' = [items EXCEPT ![i] = TimedOut(@)]
             /\ pendingTable' = TableErase(pendingTable, k)
    /\ UNCHANGED <<txVars, regVars, seqVars, wire, envVars,
                   timeVars, ivlVars,
                   dtorVars, plotVars>>

(* ---- JitterPlotFactory ---- *)

\* the heap after new JitterPlot(margins) has returned address a
HeapNew(heap, a, margins) ==
    [x \in (DOMAIN heap) \cup {a} |-> IF x = a THEN margins ELSE heap[x]]

\* the heap after the objects at the addresses of gone were deleted
HeapDelete(heap, gone) == [x \in (DOMAIN heap) \ gone |-> heap[x]]

\* a createPlot that records the new plot twice
CreatePlotAppendingTwice(margins) ==
    /\ ~factoryDestructed
    /\ Len(m_plots) < MaxPlots
    /\ \E newPlot \in PlotAddresses \ DOMAIN plotHeap :
          /\ plotHeap' = HeapNew(plotHeap, newPlot, margins)
          /\ m_plots' = Append(Append(m_plots, newPlot), newPlot)
          /\ returnedPlots' = Append(returnedPlots, newPlot)
    /\ UNCHANGED <<txVars, regVars, seqVars, engVars, envVars, timeVars,
                   ivlVars, dtorVars, plotDeletes, factoryDestructed>>

\* JitterPlotFactory.cpp lines 38-44: new JitterPlot(margins) returns the
\* address of a new object, one that no live object has; it is appended to
\* m_plots and returned
CreatePlot(margins) ==
    /\ ~factoryDestructed
    /\ Len(m_plots) < MaxPlots
    /\ \E newPlot \in PlotAddresses \ DOMAIN plotHeap :
          /\ plotHeap' = HeapNew(plotHeap, newPlot, margins)
          /\ m_plots' = Append(m_plots, newPlot)
          /\ returnedPlots' = Append(returnedPlots, newPlot)
    /\ UNCHANGED <<txVars, regVars, seqVars, engVars, envVars, timeVars,
                   ivlVars, dtorVars, plotDeletes, factoryDestructed>>

\* a caller of createPlot with one of the margins
CreatePlotCall == \E margins \in Margins : CreatePlot(margins)

\* JitterPlotFactory.cpp lines 34-36: qDeleteAll(m_plots) deletes the plot
\* of every place of the list
DestroyFactory ==
    /\ ~factoryDestructed
    /\ plotDeletes' =
          [a \in PlotAddresses |-> plotDeletes[a] + Occurrences(m_plots, a)]
    /\ plotHeap' = HeapDelete(plotHeap, {m_plots[k] : k \in 1 .. Len(m_plots)})
    /\ factoryDestructed' = TRUE
    /\ UNCHANGED <<txVars, regVars, seqVars, engVars, envVars, timeVars,
                   ivlVars, dtorVars, m_plots, returnedPlots>>

\* a plot factory and its callers
NextPlots ==
    \/ CreatePlotCall
    \/ DestroyFactory

(* ---- the system ---- *)

Transmitter ==
    \/ DoWorkEntry \/ SetEpoch \/ WhileCheck \/ CheckEmpty \/ LockTargets
    \/ ForNext \/ LockSequence \/ AllocateSequence \/ UnlockSequence
    \/ AddRequest \/ Sendto \/ StartTimer \/ UnlockTargets \/ Elapsed
    \/ TestInterval \/ Msleep \/ WakeUp \/ IncSample

Next ==
    \/ Start
    \/ Stop
    \/ Transmitter
    \/ AddTargetCall
    \/ AddTargetLock
    \/ AddTargetAppend
    \/ ReceiveReply
    \/ TimeoutSweep

Spec == Init /\ [][Next]_vars

\* the same system next to a counter that is about to wrap
SpecWrap == InitWrap /\ [][Next]_vars

\* the same system with callers of removeTarget
NextRemoval == Next \/ RemoveTarget

SpecRemoval == Init /\ [][NextRemoval]_vars

\* the transmitter and its callers, setInterval among them, with no reply
\* or timeout being processed and no stop()
NextInterval ==
    \/ Start
    \/ Transmitter
    \/ AddTargetCall
    \/ AddTargetLock
    \/ AddTargetAppend
    \/ SetIntervalCall

SpecInterval == Init /\ [][NextInterval]_vars

\* the same system until the engine is torn down
NextTeardown ==
    \/ (~destructed /\ Next)
    \/ Teardown

SpecTeardown == Init /\ [][NextTeardown]_vars

SpecPlots == Init /\ [][NextPlots]_vars

\* the users of the two locks: the transmit loop and the callers of
\* addTarget.  The loop runs whenever it can, a caller waiting for the
\* registry lock gets it if it is free again and again (fair locking), and a
\* caller holding it goes on.
NextLocks ==
    \/ Start
    \/ Transmitter
    \/ AddTargetCall
    \/ AddTargetLock
    \/ AddTargetAppend

SpecLocks ==
    /\ Init
    /\ [][NextLocks]_vars
    /\ WF_vars(Transmitter)
    /\ SF_vars(AddTargetLock)
    /\ WF_vars(AddTargetAppend)

(* ---- a full cycle of the sequence counter ---- *)

\* lines 77-79 in the transmitter of another engine of the process: the
\* static counter is shared, so its allocation advances m_sequenceId too
OtherAllocate ==
    /\ m_sequenceMutex = "free"
    /\ m_sequenceId' = NextSequenceId(m_sequenceId)
    /\ UNCHANGED <<txVars, regVars, m_sequenceMutex, engVars, envVars,
                   timeVars, ivlVars,
                   dtorVars, plotVars>>

\* One schedule of the system: a target is registered, the engine is started,
\* and while the loop sleeps after its first round the other engines of the
\* process transmit until the counter has gone round; the network delivers
\* replies only from then on.
NextCycle ==
    \/ (pc = "idle" /\ m_targets = <<>> /\ AddTargetCall)
    \/ AddTargetLock
    \/ AddTargetAppend
    \/ (Len(m_targets) = 1 /\ Start)
    \/ (pc # "sleeping" /\ Transmitter)
    \/ (pc = "sleeping" /\ sampleNumber = 0 /\ Len(items) = 1 /\ OtherAllocate)
    \/ (pc = "sleeping" /\ (sampleNumber = 0 => m_sequenceId = currentSequenceId)
          /\ WakeUp)
    \/ (Len(items) > 1 /\ ReceiveReply)

SpecCycle == Init /\ [][NextCycle]_vars

(* ---- C1: (identifier, sequence) of the items in flight ---- *)

\* C1: no two PingItems that are pending at the same instant carry the same
\* (identifier, sequence) pair
C1_PendingPairsDistinct ==
    \A i, j \in 1 .. Len(items) :
        (i # j /\ items[i].state = "Pending" /\ items[j].state = "Pending")
            => KeyOf(items[i]) # KeyOf(items[j])

(* ---- C3: correlation after the counter has wrapped ---- *)

\* C3: a reply completes only the item whose request caused it
C3_ReplyMatchesItsRequest ==
    \A i \in 1 .. Len(items) :
        items[i].state = "Completed" => items[i].matched = i

\* C9: every PingItem is resolved exactly once: a resolved item has produced
\* one result, and an item still pending has produced none and is the entry
\* of its key in the pending table, where a reply or the sweep finds it
C9_ResolvedExactlyOnce ==
    \A i \in 1 .. Len(items) :
        IF items[i].state = "Pending"
        THEN /\ items[i].results = 0
             /\ KeyOf(items[i]) \in DOMAIN pendingTable
             /\ pendingTable[KeyOf(items[i])] = i
        ELSE /\ items[i].results = 1
             /\ (KeyOf(items[i]) \in DOMAIN pendingTable
                    => pendingTable[KeyOf(items[i])] # i)

(* ---- C4, C5: stop ---- *)

\* C4: once stop() has been called the loop begins no new round: the test of
\* line 63 that follows leaves the loop
C4_StopEndsLoop ==
    [][(stopCalls > 0 /\ pc = "while" /\ pc' # "while") => pc' = "done"]_vars

\* C5: the transmitter state moves only forward through Idle, Running,
\* Stopped, and a stop() made in state Stopped changes nothing
C5_IdleRunningStopped ==
    [][/\ TransmitterState = "Running" => TransmitterState' # "Idle"
       /\ TransmitterState = "Stopped" => TransmitterState' = "Stopped"
       /\ (TransmitterState = "Stopped" /\ stopCalls' # stopCalls)
             => UNCHANGED <<txVars, regVars, seqVars, engVars, timeVars>>]_vars

(* ---- C6: a failed send ---- *)

\* the send of item i failed: its timer was started, it is unresolved and
\* its request is not on the wire
SendFailed(i) ==
    /\ items[i].started
    /\ items[i].state = "Pending"
    /\ PacketOf(i) \notin wire

\* C6: whatever the sends returned, at the end of the range-for every target
\* of the registry has its item of this round and went through the whole
\* loop body; and the loop is left only after stop()
C6_FailedSendDoesNotAbort ==
    /\ pc = "unlock" =>
          \A k \in 1 .. Len(m_targets) :
              \E i \in 1 .. Len(items) :
                  /\ items[i].target = m_targets[k]
                  /\ items[i].sample = sampleNumber
                  /\ items[i].started
    /\ pc = "done" => stopCalls > 0

\* C6 witness: a send failed, the target after it was probed in the same
\* round, and the loop has gone on into the next round
C6_FailedThenProbed ==
    \E i, j \in 1 .. Len(items) :
        /\ SendFailed(i)
        /\ j = i + 1
        /\ items[j].sample = items[i].sample
        /\ items[j].started
        /\ sampleNumber > items[i].sample
        /\ pc \in {"check_empty", "lock"}

(* ---- C7: the registry lock ---- *)

\* the transmit loop is at a statement that uses m_targets: the emptiness
\* test and last() of lines 64-65, or the range-for of lines 72-108
TransmitterUsesRegistry ==
    pc \in {"check_empty", "for", "seq_lock", "seq_inc", "seq_unlock",
            "add_request", "sendto", "start_timer"}

\* C7: the registry is appended to only with its lock held, the loop uses it
\* only with the lock held, so addTarget never runs during such a use
C7_RegistryUnderLock ==
    /\ addPc = "locked" => m_targetsMutex = "adder"
    /\ TransmitterUsesRegistry => m_targetsMutex = "tx"
    /\ ~(addPc = "locked" /\ TransmitterUsesRegistry)

(* ---- C8: one target, three rounds ---- *)

\* one target was registered before start() and none since
OneTargetFromStart == targetsAtStart = 1 /\ Len(m_targets) = 1

C2_WrapsToStart ==
    [][m_sequenceId' # m_sequenceId =>
          IF m_sequenceId = SequenceMax
          THEN m_sequenceId' = SequenceStart
          ELSE m_sequenceId' > m_sequenceId]_vars

\* C2 amended: every allocation returns the counter's value and advances the
\* counter by one, and the allocation after the one made at 65535 returns 0
C2_WrapsToZero ==
    [][m_sequenceId' # m_sequenceId =>
          /\ currentSequenceId' = m_sequenceId
          /\ m_sequenceId' = IF m_sequenceId = SequenceMax THEN 0
                                                            ELSE m_sequenceId + 1]_vars

\* C2 witness: an item got 65535 and the next item created got 0
C2_Wrapped ==
    \E i \in 1 .. Len(items) - 1 :
        items[i].seq = SequenceMax /\ items[i + 1].seq = 0

(* ---- C11: callers and the transmit loop ---- *)

\* C11: a caller of addTarget never waits on the transmit loop: it is never
\* at the registry lock while the loop holds that lock
C11_CallersNeverWait == ~(addPc = "wait" /\ m_targetsMutex = "tx")

(* ---- C13, C14: registration, send and send timestamp ---- *)

\* C13: every PingItem in the pending table has its send timestamp recorded
C13_RegisteredWithTimestamp ==
    \A k \in DOMAIN pendingTable : items[pendingTable[k]].started

\* C14: when a packet is handed to the socket its item is in the pending
\* table with target, identifier, sequence and sample number set; and a reply
\* never arrives while its item is pending and not in the table
C14_RegisteredBeforeSend ==
    [][/\ \A p \in wire' \ wire :
             /\ <<p.id, p.seq>> \in DOMAIN pendingTable
             /\ pendingTable[<<p.id, p.seq>>] = p.origin
             /\ items[p.origin].target = m_targets[idx]
             /\ items[p.origin].id = TargetId(m_targets[idx])
             /\ items[p.origin].seq = currentSequenceId
             /\ items[p.origin].sample = sampleNumber
       /\ \A p \in wire \ wire' :
             \/ <<p.id, p.seq>> \in DOMAIN pendingTable
             \/ items[p.origin].state # "Pending"]_vars

\* C14 witness: a reply arrived before the timer of its item was started,
\* and found the item
C14_RepliedBeforeTimer ==
    \E i \in 1 .. Len(items) :
        /\ items[i].state = "Completed"
        /\ items[i].matched = i
        /\ ~items[i].started

(* ---- C15: one item per target and round ---- *)

\* the items created in the round with sample number s, in creation order
RoundItems(s) == SelectSeq(items, LAMBDA it : it.sample = s)

\* C15: at the end of the range-for the items of this round are one per
\* target of the registry, in registry order, whatever the sends returned;
\* every item carries the identifier of the target it refers to
C15_OneItemPerTarget ==
    /\ pc = "unlock" =>
          /\ Len(RoundItems(sampleNumber)) = Len(m_targets)
          /\ \A k \in 1 .. Len(m_targets) :
                RoundItems(sampleNumber)[k].target = m_targets[k]
    /\ \A i \in 1 .. Len(items) :
          /\ \E k \in 1 .. Len(m_targets) : items[i].target = m_targets[k]
          /\ items[i].id = TargetId(items[i].target)

\* C15 witness: a round over two targets ends with two items, the send of
\* one of them having failed
C15_TwoTargetsOneFailed ==
    /\ pc = "unlock"
    /\ Len(m_targets) = 2
    /\ Len(RoundItems(sampleNumber)) = 2
    /\ \E i \in 1 .. Len(items) :
          items[i].sample = sampleNumber /\ SendFailed(i)

(* ---- C16: the sample counter ---- *)

\* C16: the sample counter never decreases and changes only by one; every
\* pass of the loop that ends has increased it exactly once, so it equals the
\* number of passes ended; an item carries the number of the pass that
\* creates it, so the items of one pass carry the same sample number
C16_SampleCountsRounds ==
    [][/\ sampleNumber' >= sampleNumber
       /\ sampleNumber' # sampleNumber =>
             (sampleNumber' = sampleNumber + 1 /\ pc = "inc_sample")
       /\ (pc = "inc_sample" /\ pc' = "while") => sampleNumber' = iteration
       /\ pc' \in {"while", "done"} => sampleNumber' = iteration'
       /\ Len(items') > Len(items) =>
             items'[Len(items')].sample = iteration - 1]_vars

\* C16 witness: two passes are over, the first with an empty registry and
\* the second with a failed send, and the counter is 2
C16_EmptyThenFailed ==
    /\ sampleNumber = 2
    /\ pc = "while"
    /\ RoundItems(0) = <<>>
    /\ \E i \in 1 .. Len(items) : items[i].sample = 1 /\ SendFailed(i)

(* ---- C17: the two locks ---- *)

\* the transmit loop is outside lines 70-110
OutsideRound ==
    pc \in {"idle", "entry", "epoch", "while", "check_empty", "lock",
            "elapsed", "test_interval", "msleep", "sleeping", "inc_sample",
            "done"}

C18_SleepsMaxZero ==
    [][/\ (pc = "test_interval" /\ pc' = "inc_sample") => elapsedTime >= m_interval
       /\ (pc = "msleep" /\ pc' = "sleeping") =>
             (sleepArg' = m_interval - elapsedTime /\ sleepArg' > 0)]_vars

(* ---- C19: the epoch ---- *)

\* C19: the epoch is set once, on entry of the loop before its first pass,
\* when no item exists and nothing was sent; items are created and packets
\* sent only after it was set
C19_EpochSetOnce ==
    [][/\ epochSets' # epochSets =>
             /\ epochSets = 0 /\ epochSets' = 1
             /\ pc = "epoch" /\ iteration = 0
             /\ items = <<>> /\ wire = {}
       /\ Len(items') > Len(items) => epochSets = 1
       /\ wire' # wire => epochSets' = 1
       /\ pc' \notin {"idle", "entry", "epoch"} => epochSets' = 1]_vars

\* C19 witness: the loop is in its third pass, two items exist and the epoch
\* was set once
C19_ThirdPassOneEpoch ==
    /\ iteration = 3
    /\ Len(items) >= 2
    /\ epochSets = 1

(* ---- C20: the interval ---- *)

\* C20: interval() is 10000 until setInterval is called and the argument of
\* the latest call from then on; setInterval returns true and changes
\* nothing else; no other step changes the interval
C20_IntervalIsLastSet ==
    [][/\ Interval = IF setIntervalCalls = 0 THEN DefaultTransmitInterval
                                             ELSE lastSetInterval
       /\ Interval' = IF setIntervalCalls' = 0 THEN DefaultTransmitInterval
                                               ELSE lastSetInterval'
       /\ setIntervalResult'
       /\ setIntervalCalls' # setIntervalCalls =>
             UNCHANGED <<txVars, regVars, seqVars, engVars, envVars,
                         elapsedTime, sleepArg, iteration>>
       /\ setIntervalCalls' = setIntervalCalls => m_interval' = m_interval]_vars

\* C20 witness: the loop sleeps 1 ms, as computed with the interval 3 of one
\* call, and interval() is the 1 of the second call
C20_SetTwice ==
    /\ setIntervalCalls = 2
    /\ Interval = 1
    /\ pc = "sleeping"
    /\ sleepArg = 1

(* ---- C21: the registry until teardown ---- *)

\* the transmit loop can still iterate over m_targets: doWork() has been
\* entered, or will be, and has not returned
LoopCanIterate == pc \notin {"idle", "done"}

C22_PlotsRecordedOnce ==
    /\ m_plots = returnedPlots
    /\ \A i, j \in 1 .. Len(returnedPlots) :
          i # j => returnedPlots[i] # returnedPlots[j]
    /\ ~factoryDestructed =>
          \A i \in 1 .. Len(returnedPlots) : returnedPlots[i] \in DOMAIN plotHeap
    /\ \A a \in PlotAddresses :
          plotDeletes[a] =
             IF factoryDestructed /\ Occurrences(returnedPlots, a) > 0
             THEN 1 ELSE 0

\* C22 witness: a factory that made three plots was destroyed, and the three
\* plots with it
C22_ThreePlotsDestroyed ==
    /\ factoryDestructed
    /\ Len(returnedPlots) = 3
    /\ \A i \in 1 .. 3 : plotDeletes[returnedPlots[i]] = 1
    /\ DOMAIN plotHeap = {}

====
